---- MODULE Spec2Model ----
(***************************************************************************)
(* PhotonDB: the reclaim pick strategy (page_store/strategy/mod.rs), the   *)
(* statistics snapshots (page_store/stats.rs) and the index page view      *)
(* (engine/src/tree/page/index_page.rs).                                   *)
(*                                                                         *)
(* f64 values are modelled as exact rationals [num, den] in lowest terms   *)
(* with den > 0; den = 0 encodes +inf (num = 1), -inf (num = -1) and NaN   *)
(* (num = 0).  Rounding is not modelled; +0.0 and -0.0 are one value (they *)
(* compare equal under PartialEq / PartialOrd).                            *)
(***************************************************************************)
EXTENDS Integers, Sequences, FiniteSets, TLC

VARIABLES
    now,        \* MinDeclineRateStrategy.now
    used,       \* MinDeclineRateStrategy.used
    sorted,     \* MinDeclineRateStrategy.sorted
    scores,     \* MinDeclineRateStrategy.scores (Vec<FileScore>)
    ret,        \* value returned by the most recent apply
    arg,        \* file id and FileSummary handed to the most recent collect
    last,       \* most recent operation on the instance
    applies,    \* number of apply calls made on the instance
    collects,   \* number of collect calls made on the instance
    other,      \* a second instance built with the same now: what it was
                \* fed, and its fields and return value after its apply
    dr_summary, \* decline_rate: the summary argument
    dr_now,     \* decline_rate: the now argument
    dr_score,   \* decline_rate: the value returned
    counters,   \* the store's counters as snapshot() reads them now
    then,       \* StoreStats snapshot taken earlier
    interval,   \* the operands and the result of the latest StoreStats::sub
    adds,       \* number of Counter::add calls made
    page,       \* the entries of the index page, ascending by key
    pageop,     \* the operation made on the page ("idle" before any)
    found,      \* find: the target and the value returned
    range,      \* find_range: the target and the pair returned
    split_ret,  \* split: the separator returned, or None
    iter,       \* the IndexPageSplitIter split returned
    yielded,    \* entries next() has yielded since new or the last rewind
    ended,      \* next() has returned None since new or the last rewind
    rewinds     \* number of rewind calls made

strategyVars ==
    <<now, used, sorted, scores, ret, arg, last, applies, collects, other>>

scoreVars == <<dr_summary, dr_now, dr_score>>

statsVars == <<counters, then, interval, adds>>

pageVars ==
    <<page, pageop, found, range, split_ret, iter, yielded, ended, rewinds>>

vars == <<strategyVars, scoreVars, statsVars, pageVars>>

----------------------------------------------------------------------------
(* Bounds.                                                                 *)

MaxCollect == 3
MaxApply == 2
MaxActivePages == 2
MaxFileSize == 3
MaxEpoch == 2
MaxCount == 2
MaxKeyLen == 2
MaxEntries == 4
MaxRewind == 1

\* u64 counters are modelled modulo U64Modulus instead of 2^64.
U64Modulus == 4

\* Value ranges the inputs are drawn from.
FileIds == 1 .. 2
MapFileIds == {1}
Epochs == 0 .. 1
FileSizes == {2}
PageCounts == 0 .. 1

\* Option<T>
None == [some |-> FALSE]

Some(v) == [some |-> TRUE, val |-> v]

----------------------------------------------------------------------------
(* f64 arithmetic.                                                         *)

Abs(i) == IF i < 0 THEN -i ELSE i

Sign(i) == IF i < 0 THEN -1 ELSE IF i > 0 THEN 1 ELSE 0

RECURSIVE GCD(_, _)
GCD(a, b) == IF b = 0 THEN a ELSE GCD(b, a % b)

Norm(n, d) ==
    IF d = 0 THEN [num |-> Sign(n), den |-> 0]
    ELSE LET g == GCD(Abs(n), Abs(d))
         IN  [num |-> (Sign(d) * n) \div g, den |-> Abs(d) \div g]

NaN == [num |-> 0, den |-> 0]

IsNaN(x) == x.den = 0 /\ x.num = 0

IsInfinite(x) == x.den = 0 /\ x.num # 0

FromInt(i) == [num |-> i, den |-> 1]

FNeg(x) == [num |-> -x.num, den |-> x.den]

FAdd(x, y) ==
    IF IsNaN(x) \/ IsNaN(y) THEN NaN
    ELSE IF x.den = 0 /\ y.den = 0 THEN (IF x.num = y.num THEN x ELSE NaN)
    ELSE Norm(x.num * y.den + y.num * x.den, x.den * y.den)

FSub(x, y) == FAdd(x, FNeg(y))

FMul(x, y) ==
    IF IsNaN(x) \/ IsNaN(y) THEN NaN
    ELSE Norm(x.num * y.num, x.den * y.den)

FDiv(x, y) ==
    IF IsNaN(x) \/ IsNaN(y) THEN NaN
    ELSE FMul(x, Norm(y.den, y.num))

\* f64::partial_cmp: "None" when either side is NaN.
F64PartialCmp(x, y) ==
    IF IsNaN(x) \/ IsNaN(y) THEN "None"
    ELSE LET l == IF x.den = 0 /\ y.den = 0 THEN x.num ELSE x.num * y.den
             r == IF x.den = 0 /\ y.den = 0 THEN y.num ELSE y.num * x.den
         IN  IF l < r THEN "Less" ELSE IF l > r THEN "Greater" ELSE "Equal"

\* f64::MIN, the most negative finite value; scaled to lie below every
\* finite value the bounded inputs can produce.
F64_MIN == [num |-> -1000000, den |-> 1]

Zero == FromInt(0)

One == FromInt(1)

Tenth == [num |-> 1, den |-> 10]

----------------------------------------------------------------------------
(* Statistics snapshots.                                                   *)

wrapping_sub(a, b) == (a + U64Modulus - b) % U64Modulus

wrapping_add(a, b) == (a + b) % U64Modulus

CacheStats_sub(self, o) ==
    [lookup_hit    |-> wrapping_sub(self.lookup_hit, o.lookup_hit),
     lookup_miss   |-> wrapping_sub(self.lookup_miss, o.lookup_miss),
     insert        |-> wrapping_sub(self.insert, o.insert),
     active_evict  |-> wrapping_sub(self.active_evict, o.active_evict),
     passive_evict |-> wrapping_sub(self.passive_evict, o.passive_evict)]

CacheStats_add(self, o) ==
    [lookup_hit    |-> wrapping_add(self.lookup_hit, o.lookup_hit),
     lookup_miss   |-> wrapping_add(self.lookup_miss, o.lookup_miss),
     insert        |-> wrapping_add(self.insert, o.insert),
     active_evict  |-> wrapping_add(self.active_evict, o.active_evict),
     passive_evict |-> wrapping_add(self.passive_evict, o.passive_evict)]

WritebufStats_sub(self, o) ==
    [read_in_buf  |-> wrapping_sub(self.read_in_buf, o.read_in_buf),
     read_in_file |-> wrapping_sub(self.read_in_file, o.read_in_file)]

JobStats_sub(self, o) ==
    [flush_write_bytes   |-> wrapping_sub(self.flush_write_bytes, o.flush_write_bytes),
     rewrite_bytes       |-> wrapping_sub(self.rewrite_bytes, o.rewrite_bytes),
     compact_write_bytes |-> wrapping_add(self.compact_write_bytes,
                                          o.compact_write_bytes)]

StoreStats_sub(self, o) ==
    [page_cache        |-> CacheStats_sub(self.page_cache, o.page_cache),
     file_reader_cache |-> CacheStats_sub(self.file_reader_cache, o.file_reader_cache),
     writebuf          |-> WritebufStats_sub(self.writebuf, o.writebuf),
     jobs              |-> JobStats_sub(self.jobs, o.jobs)]

\* #[derive(Default)]
CacheStatsDefault ==
    [lookup_hit |-> 0, lookup_miss |-> 0, insert |-> 0,
     active_evict |-> 0, passive_evict |-> 0]

StoreStatsDefault ==
    [page_cache        |-> CacheStatsDefault,
     file_reader_cache |-> CacheStatsDefault,
     writebuf          |-> [read_in_buf |-> 0, read_in_file |-> 0],
     jobs              |-> [flush_write_bytes |-> 0, rewrite_bytes |-> 0,
                            compact_write_bytes |-> 0]]

CacheFields ==
    {"lookup_hit", "lookup_miss", "insert", "active_evict", "passive_evict"}

\* Every counter of StoreStats, as <<group, field>>.
CounterFields ==
    ({"page_cache", "file_reader_cache"} \X CacheFields)
        \cup ({"writebuf"} \X {"read_in_buf", "read_in_file"})
        \cup ({"jobs"} \X {"flush_write_bytes", "rewrite_bytes", "compact_write_bytes"})

\* No statistics activity.
IdleStats ==
    /\ counters = StoreStatsDefault
    /\ then = StoreStatsDefault
    /\ interval = None
    /\ adds = 0

\* Counter::add(delta) on one counter.
CounterAdd ==
    /\ adds < MaxCount
    /\ \E c \in CounterFields, delta \in 1 .. U64Modulus - 1 :
          counters' = [counters EXCEPT ![c[1]][c[2]] = wrapping_add(@, delta)]
    /\ adds' = adds + 1
    /\ UNCHANGED <<strategyVars, scoreVars, pageVars, then, interval>>

\* snapshot() of every counter group.
Snapshot ==
    /\ then' = counters
    /\ UNCHANGED <<strategyVars, scoreVars, pageVars, counters, interval, adds>>

\* now.sub(then) on the snapshot taken earlier and one taken now.
Sub ==
    /\ interval' = Some([self |-> counters, o |-> then,
                         out |-> StoreStats_sub(counters, then)])
    /\ UNCHANGED <<strategyVars, scoreVars, pageVars, counters, then, adds>>

----------------------------------------------------------------------------
(* Sorted page framing (SortedPageRef, SortedPageIter): keys are byte       *)
(* strings ordered lexicographically, positions count from 0.              *)

Bytes == {0, 1}

RECURSIVE BytesCmp(_, _)
BytesCmp(a, b) ==
    IF a = <<>> THEN (IF b = <<>> THEN "Equal" ELSE "Less")
    ELSE IF b = <<>> THEN "Greater"
    ELSE IF Head(a) < Head(b) THEN "Less"
    ELSE IF Head(a) > Head(b) THEN "Greater"
    ELSE BytesCmp(Tail(a), Tail(b))

Keys == UNION {[1 .. n -> Bytes] : n \in 0 .. MaxKeyLen}

len(pg) == Len(pg)

get(pg, i) == IF i < Len(pg) THEN Some(pg[i + 1]) ELSE None

\* Binary search by key: Ok(i) on an exact hit, else Err(i) with i the
\* number of entries whose key is less than target.
search(pg, target) ==
    LET less == {j \in 1 .. Len(pg) : BytesCmp(pg[j].key, target) = "Less"}
        hit  == \E j \in 1 .. Len(pg) : BytesCmp(pg[j].key, target) = "Equal"
    IN  [i |-> Cardinality(less), ok |-> hit]

\* The entry at i on an exact hit, the one at Err(i) - 1 on a miss.
seek_back(pg, target) ==
    LET r == search(pg, target)
    IN  IF r.ok THEN get(pg, r.i)
        ELSE IF r.i = 0 THEN None ELSE get(pg, r.i - 1)

\* SortedPageIter: next is the position of the entry next() yields.
SortedPageIter_new(pg) == [next |-> 0]

SortedPageIter_next(it, pg) ==
    IF it.next < Len(pg)
    THEN [iter |-> [next |-> it.next + 1], item |-> Some(pg[it.next + 1])]
    ELSE [iter |-> it, item |-> None]

SortedPageIter_skip(it, pg, n) ==
    [next |-> IF it.next + n < Len(pg) THEN it.next + n ELSE Len(pg)]

SortedPageIter_rewind(it) == [next |-> 0]

----------------------------------------------------------------------------
(* Index page view.                                                        *)

\* Mutant of find: the entry at the insertion index (seek, not seek_back).
find_forward(pg, target) == get(pg, search(pg, target).i)

find(pg, target) == seek_back(pg, target)

\* Mutant of find_range: a miss does not step back for the left entry.
find_range_no_step_back(pg, target) ==
    LET r == search(pg, target)
    IN  IF r.ok
        THEN [left |-> get(pg, r.i), right |-> get(pg, r.i + 1)]
        ELSE [left |-> get(pg, r.i), right |-> get(pg, r.i + 1)]

find_range(pg, target) ==
    LET r == search(pg, target)
    IN  IF r.ok
        THEN [left |-> get(pg, r.i), right |-> get(pg, r.i + 1)]
        ELSE [left  |-> IF r.i = 0 THEN None ELSE get(pg, r.i - 1),
              right |-> get(pg, r.i)]

IndexPageIter_new(pg) == SortedPageIter_new(pg)

IndexPageSplitIter_new(base, pg, skip) ==
    [base |-> SortedPageIter_skip(base, pg, skip), skip |-> skip]

IndexPageSplitIter_next(it, pg) ==
    LET r == SortedPageIter_next(it.base, pg)
    IN  [iter |-> [base |-> r.iter, skip |-> it.skip], item |-> r.item]

\* Mutant of IndexPageSplitIter_rewind: the base is rewound, not re-skipped.
IndexPageSplitIter_rewind_only(it, pg) ==
    [base |-> SortedPageIter_rewind(it.base), skip |-> it.skip]

IndexPageSplitIter_rewind(it, pg) ==
    [base |-> SortedPageIter_skip(SortedPageIter_rewind(it.base), pg, it.skip),
     skip |-> it.skip]

split(pg) ==
    LET mid == get(pg, len(pg) \div 2)
    IN  IF mid.some
        THEN LET sep  == mid.val.key
                 rank == search(pg, sep).i
             IN  IF rank > 0
                 THEN Some([iter |-> IndexPageSplitIter_new(IndexPageIter_new(pg),
                                                            pg, rank),
                            sep  |-> sep])
                 ELSE None
        ELSE None

\* The key set S as a strictly ascending sequence of keys.
RECURSIVE Ascending(_)
Ascending(S) ==
    IF S = {} THEN <<>>
    ELSE LET k == CHOOSE x \in S : \A y \in S : BytesCmp(x, y) # "Greater"
         IN  <<k>> \o Ascending(S \ {k})

\* The pages IndexPageBuilder builds: up to MaxEntries entries, strictly
\* ascending keys, entry i pointing at child 100 + i.
Pages ==
    {[i \in 1 .. Len(ks) |-> [key |-> ks[i], value |-> 100 + i]] :
        ks \in {Ascending(S) : S \in {T \in SUBSET Keys : Cardinality(T) <= MaxEntries}}}

\* No page built.
IdlePage ==
    /\ page = <<>>
    /\ pageop = "idle"
    /\ found = None
    /\ range = None
    /\ split_ret = None
    /\ iter = None
    /\ yielded = <<>>
    /\ ended = FALSE
    /\ rewinds = 0

Find ==
    /\ pageop = "idle"
    /\ \E target \in Keys :
          found' = Some([target |-> target, item |-> find(page, target)])
    /\ pageop' = "find"
    /\ UNCHANGED <<strategyVars, scoreVars, statsVars, page, range, split_ret,
                   iter, yielded, ended, rewinds>>

FindRange ==
    /\ pageop = "idle"
    /\ \E target \in Keys :
          range' = Some([target |-> target, pair |-> find_range(page, target)])
    /\ pageop' = "find_range"
    /\ UNCHANGED <<strategyVars, scoreVars, statsVars, page, found, split_ret,
                   iter, yielded, ended, rewinds>>

Split ==
    /\ pageop = "idle"
    /\ LET r == split(page)
       IN  /\ split_ret' = IF r.some THEN Some(r.val.sep) ELSE None
           /\ iter' = IF r.some THEN Some(r.val.iter) ELSE None
    /\ pageop' = "split"
    /\ UNCHANGED <<strategyVars, scoreVars, statsVars, page, found, range,
                   yielded, ended, rewinds>>

\* next() on the split iterator.
IterNext ==
    /\ iter.some
    /\ ~ended
    /\ LET r == IndexPageSplitIter_next(iter.val, page)
       IN  /\ iter' = Some(r.iter)
           /\ yielded' = IF r.item.some THEN Append(yielded, r.item.val) ELSE yielded
           /\ ended' = ~r.item.some
    /\ UNCHANGED <<strategyVars, scoreVars, statsVars, page, pageop, found, range,
                   split_ret, rewinds>>

\* rewind() on the split iterator.
IterRewind ==
    /\ iter.some
    /\ rewinds < MaxRewind
    /\ iter' = Some(IndexPageSplitIter_rewind(iter.val, page))
    /\ yielded' = <<>>
    /\ ended' = FALSE
    /\ rewinds' = rewinds + 1
    /\ UNCHANGED <<strategyVars, scoreVars, statsVars, page, pageop, found, range,
                   split_ret>>

----------------------------------------------------------------------------
(* FileInfo (external): the accessors a page file offers.                  *)

FileInfo(id, a, t, f, e, u) ==
    [file_id |-> id, num_active_pages |-> a, total_pages |-> t,
     file_size |-> f, effective_size |-> e, up2 |-> u]

effective_rate(info) ==
    FDiv(FromInt(info.effective_size), FAdd(FromInt(info.file_size), Tenth))

empty_pages_rate(info) ==
    FSub(One, FDiv(FromInt(info.num_active_pages),
                   FAdd(FromInt(info.total_pages), Tenth)))

----------------------------------------------------------------------------
(* Strategy: scoring.                                                      *)

write_amplification(empty_rate) ==
    FMul(FDiv(One, empty_rate), FSub(One, empty_rate))

\* Mutant of decline_rate: no test of up2 == now.
decline_rate_no_recency(summary, n) ==
    IF summary.num_active_pages = 0 THEN Zero
    ELSE LET free_size == summary.file_size - summary.effective_size
         IN  IF free_size = 0 THEN F64_MIN
             ELSE LET ratio == FDiv(FromInt(summary.effective_size), FromInt(free_size))
                  IN  FDiv(FNeg(FMul(ratio, ratio)),
                           FMul(FromInt(summary.num_active_pages),
                                FSub(FromInt(n), FromInt(summary.up2))))

\* Mutant of decline_rate: the quotient is not negated.
decline_rate_unnegated(summary, n) ==
    IF summary.num_active_pages = 0 THEN Zero
    ELSE LET free_size == summary.file_size - summary.effective_size
         IN  IF free_size = 0 \/ summary.up2 = n THEN F64_MIN
             ELSE LET ratio == FDiv(FromInt(summary.effective_size), FromInt(free_size))
                  IN  FDiv(FMul(ratio, ratio),
                           FMul(FromInt(summary.num_active_pages),
                                FSub(FromInt(n), FromInt(summary.up2))))

decline_rate(summary, n) ==
    IF summary.num_active_pages = 0 THEN Zero
    ELSE LET free_size == summary.file_size - summary.effective_size
         IN  IF free_size = 0 \/ summary.up2 = n THEN F64_MIN
             ELSE LET ratio == FDiv(FromInt(summary.effective_size), FromInt(free_size))
                  IN  FDiv(FNeg(FMul(ratio, ratio)),
                           FMul(FromInt(summary.num_active_pages),
                                FSub(FromInt(n), FromInt(summary.up2))))

----------------------------------------------------------------------------
(* Strategy: summaries.                                                    *)

PageFile(id) == [id |-> id, kind |-> "PageFile"]

MapFile(id) == [id |-> id, kind |-> "MapFile"]

\* impl From<&FileInfo> for FileSummary
SummaryOfPageFile(info) ==
    [num_active_pages |-> info.num_active_pages,
     file_size        |-> info.file_size,
     effective_size   |-> info.effective_size,
     up2              |-> info.up2,
     effective_rate   |-> effective_rate(info),
     empty_pages_rate |-> empty_pages_rate(info)]

RECURSIVE SumOver(_, _, _)
SumOver(file_infos, page_files, field) ==
    IF page_files = {} THEN 0
    ELSE LET p == CHOOSE x \in page_files : TRUE
         IN  file_infos[p][field] + SumOver(file_infos, page_files \ {p}, field)

\* impl From<(&HashMap<u32, FileInfo>, &MapFileInfo)> for FileSummary
SummaryOfMapFile(file_infos, info) ==
    LET page_files       == info.meta.page_files
        num_active_pages == SumOver(file_infos, page_files, "num_active_pages")
        effective_size   == SumOver(file_infos, page_files, "effective_size")
        total_pages      == SumOver(file_infos, page_files, "total_pages")
    IN  [num_active_pages |-> num_active_pages,
         file_size        |-> info.meta.file_size,
         effective_size   |-> effective_size,
         up2              |-> info.up2,
         effective_rate   |-> FDiv(FromInt(effective_size),
                                   FAdd(FromInt(info.meta.file_size), Tenth)),
         empty_pages_rate |-> FSub(One, FDiv(FromInt(num_active_pages),
                                             FAdd(FromInt(total_pages), Tenth)))]

----------------------------------------------------------------------------
(* Strategy: the order on FileScore.                                       *)

\* #[derive(Ord)] on PickedFile: variant order first, then the id.
PickedFileCmp(a, b) ==
    LET va == IF a.kind = "PageFile" THEN 0 ELSE 1
        vb == IF b.kind = "PageFile" THEN 0 ELSE 1
    IN  IF va < vb THEN "Less" ELSE IF va > vb THEN "Greater"
        ELSE IF a.id < b.id THEN "Less" ELSE IF a.id > b.id THEN "Greater"
        ELSE "Equal"

UsizeCmp(a, b) == IF a < b THEN "Less" ELSE IF a > b THEN "Greater" ELSE "Equal"

\* Mutant of FileScorePartialCmp: only the score is compared.
FileScorePartialCmpScoreOnly(a, b) == F64PartialCmp(a.score, b.score)

\* #[derive(PartialOrd)] on FileScore: the fields in declaration order, the
\* first one that is not Equal decides (None included).
FileScorePartialCmp(a, b) ==
    LET c1 == F64PartialCmp(a.score, b.score)
        c2 == F64PartialCmp(a.effective_rate, b.effective_rate)
        c3 == F64PartialCmp(a.write_amplify, b.write_amplify)
        c4 == UsizeCmp(a.active_size, b.active_size)
    IN  IF c1 # "Equal" THEN c1
        ELSE IF c2 # "Equal" THEN c2
        ELSE IF c3 # "Equal" THEN c3
        ELSE IF c4 # "Equal" THEN c4
        ELSE PickedFileCmp(a.file_id, b.file_id)

\* Mutant of SortCmp: the operands are swapped (b.partial_cmp(a)).
SortCmpReversed(a, b) ==
    LET c == F64PartialCmp(b.score, a.score)
        d == F64PartialCmp(b.effective_rate, a.effective_rate)
    IN  IF c # "Equal" /\ c # "None" THEN c
        ELSE IF d # "Equal" /\ d # "None" THEN d
        ELSE PickedFileCmp(b.file_id, a.file_id)

\* The comparator apply hands to sort_unstable_by.
SortCmp(a, b) ==
    LET c == FileScorePartialCmp(a, b)
    IN  IF c = "None" THEN PickedFileCmp(a.file_id, b.file_id) ELSE c

RECURSIVE InsertSorted(_, _)
InsertSorted(x, s) ==
    IF s = <<>> THEN <<x>>
    ELSE IF SortCmp(x, Head(s)) = "Greater"
         THEN <<Head(s)>> \o InsertSorted(x, Tail(s))
         ELSE <<x>> \o s

\* Vec::sort_unstable_by under SortCmp: ascending.  Elements that compare
\* Equal are identical records, so the result does not depend on stability.
RECURSIVE sort_unstable_by(_)
sort_unstable_by(s) ==
    IF s = <<>> THEN <<>> ELSE InsertSorted(Head(s), sort_unstable_by(Tail(s)))

----------------------------------------------------------------------------
(* Strategy: the instance.                                                 *)

\* The FileScore that collect pushes.
NewFileScore(file_id, summary, n) ==
    [file_id        |-> file_id,
     effective_rate |-> summary.effective_rate,
     score          |-> decline_rate(summary, n),
     write_amplify  |-> write_amplification(summary.empty_pages_rate),
     active_size    |-> summary.effective_size]

\* The asserts of collect.
CollectAsserts(fs) ==
    /\ ~IsNaN(fs.score)
    /\ ~IsNaN(fs.effective_rate)
    /\ ~IsInfinite(fs.effective_rate)

collect(file_id, summary) ==
    LET fs == NewFileScore(file_id, summary, now)
    IN  /\ collects < MaxCollect
        /\ CollectAsserts(fs)
        /\ used' = used + summary.file_size
        /\ scores' = Append(scores, fs)
        /\ arg' = Some([file_id |-> file_id, summary |-> summary])
        /\ last' = "collect"
        /\ collects' = collects + 1
        /\ UNCHANGED <<now, sorted, ret, applies, other, scoreVars, statsVars, pageVars>>

\* The page files the store may hold: no active page exactly when no
\* effective byte, and never more effective bytes than the file has.
PageFileInfos ==
    {info \in {FileInfo(id, a, 1, f, e, u) :
                  id \in FileIds, a \in PageCounts, f \in FileSizes,
                  e \in 0 .. 2, u \in Epochs} :
        /\ info.effective_size <= info.file_size
        /\ (info.num_active_pages = 0) <=> (info.effective_size = 0)}

\* The virtual page files that map files are made of (the HashMap handed to
\* collect_map_file): file 1 holds no active page, every other file one.
VirtualInfos ==
    [id \in FileIds |->
        IF id = 1 THEN FileInfo(id, 0, 1, 1, 0, 0) ELSE FileInfo(id, 1, 1, 1, 1, 0)]

MapFileInfos ==
    {[file_id |-> id, up2 |-> u, meta |-> [file_size |-> f, page_files |-> pf]] :
        id \in MapFileIds, u \in Epochs, f \in FileSizes, pf \in SUBSET FileIds}

collect_page_file(file_info) ==
    collect(PageFile(file_info.file_id), SummaryOfPageFile(file_info))

collect_map_file(virtual_infos, file_info) ==
    collect(MapFile(file_info.file_id), SummaryOfMapFile(virtual_infos, file_info))

\* Mutant of apply: the guard is len() < 1.
apply_single(srt, scs) ==
    LET s1 == IF ~srt THEN sort_unstable_by(scs) ELSE scs
        n  == Len(s1)
    IN  IF n < 1
        THEN [sorted |-> TRUE, scores |-> s1, ret |-> None]
        ELSE [sorted |-> TRUE,
              scores |-> SubSeq(s1, 1, n - 1),
              ret    |-> Some([file_id |-> s1[n].file_id,
                               active_size |-> s1[n].active_size])]

\* apply on an instance whose fields are srt and scs: the fields after the
\* call and the value returned.
apply(srt, scs) ==
    LET s1 == IF ~srt THEN sort_unstable_by(scs) ELSE scs
        n  == Len(s1)
    IN  IF n < 2
        THEN [sorted |-> TRUE, scores |-> s1, ret |-> None]
        ELSE [sorted |-> TRUE,
              scores |-> SubSeq(s1, 1, n - 1),
              ret    |-> Some([file_id |-> s1[n].file_id,
                               active_size |-> s1[n].active_size])]

\* No decline_rate call under way.
IdleScore ==
    /\ dr_summary = None
    /\ dr_now = 0
    /\ dr_score = None

\* MinDeclineRateStrategy::new
NewStrategy(n) ==
    /\ now = n
    /\ used = 0
    /\ sorted = FALSE
    /\ scores = <<>>
    /\ ret = None
    /\ arg = None
    /\ last = "new"
    /\ applies = 0
    /\ collects = 0
    /\ other = None

InitStrategy ==
    (\E n \in Epochs : NewStrategy(n)) /\ IdleScore /\ IdleStats /\ IdlePage

CollectPageFile == \E info \in PageFileInfos : collect_page_file(info)

CollectMapFile == \E info \in MapFileInfos : collect_map_file(VirtualInfos, info)

Apply ==
    /\ applies < MaxApply
    /\ LET r == apply(sorted, scores)
       IN  /\ sorted' = r.sorted
           /\ scores' = r.scores
           /\ ret' = r.ret
    /\ applies' = applies + 1
    /\ last' = "apply"
    /\ UNCHANGED <<now, used, arg, collects, other, scoreVars, statsVars,
                   pageVars>>

NextStrategy == CollectPageFile \/ CollectMapFile \/ Apply

SpecStrategy == InitStrategy /\ [][NextStrategy]_vars

----------------------------------------------------------------------------
(* Two instances built with the same now and fed the same summaries, each  *)
(* file once, in different orders.                                         *)

Held(file_id) == \E i \in 1 .. Len(scores) : scores[i].file_id = file_id

CollectNewPageFile ==
    /\ applies = 0
    /\ other = None
    /\ \E info \in PageFileInfos :
          /\ ~Held(PageFile(info.file_id))
          /\ collect_page_file(info)

CollectNewMapFile ==
    /\ applies = 0
    /\ other = None
    /\ \E info \in MapFileInfos :
          /\ ~Held(MapFile(info.file_id))
          /\ collect_map_file(VirtualInfos, info)

\* The second instance collects the summaries the first one holds, in the
\* order p, and apply is called on it.  Both instances have the same now, so
\* its collect pushes the FileScores the first instance pushed.
ApplyOther ==
    /\ applies = 0
    /\ other = None
    /\ \E p \in Permutations(1 .. Len(scores)) :
          LET fed == [i \in 1 .. Len(scores) |-> scores[p[i]]]
              r   == apply(FALSE, fed)
          IN  other' = Some([sorted |-> r.sorted, scores |-> r.scores,
                             ret |-> r.ret, fed |-> fed])
    /\ UNCHANGED <<now, used, sorted, scores, ret, arg, last, applies, collects,
                   scoreVars, statsVars, pageVars>>

ApplyFirst == applies = 0 /\ Apply

NextOrder == CollectNewPageFile \/ CollectNewMapFile \/ ApplyOther \/ ApplyFirst

SpecOrder == InitStrategy /\ [][NextOrder]_vars

----------------------------------------------------------------------------
(* decline_rate as a function of its arguments.                            *)

\* Summaries of page files: no active page exactly when no effective byte,
\* and never more effective bytes than the file has.
ScoreSummaries ==
    {m \in {SummaryOfPageFile(FileInfo(1, a, a, f, e, u)) :
                a \in 0 .. MaxActivePages, f \in 1 .. MaxFileSize,
                e \in 0 .. MaxFileSize, u \in 0 .. MaxEpoch} :
        /\ m.effective_size <= m.file_size
        /\ (m.num_active_pages = 0) <=> (m.effective_size = 0)}

InitScore ==
    /\ NewStrategy(0)
    /\ dr_summary \in {Some(m) : m \in ScoreSummaries}
    /\ dr_now \in 0 .. MaxEpoch
    /\ dr_score = None
    /\ IdleStats
    /\ IdlePage

DeclineRate ==
    /\ ~dr_score.some
    /\ dr_score' = Some(decline_rate(dr_summary.val, dr_now))
    /\ UNCHANGED <<strategyVars, dr_summary, dr_now, statsVars, pageVars>>

NextScore == DeclineRate

SpecScore == InitScore /\ [][NextScore]_vars

----------------------------------------------------------------------------
(* The counters, their snapshots and the interval between two snapshots.   *)

InitStats == NewStrategy(0) /\ IdleScore /\ IdleStats /\ IdlePage

NextStats == CounterAdd \/ Snapshot \/ Sub

SpecStats == InitStats /\ [][NextStats]_vars

----------------------------------------------------------------------------
(* An index page and the operations of its view.                           *)

InitPage ==
    /\ NewStrategy(0) /\ IdleScore /\ IdleStats
    /\ page \in Pages
    /\ pageop = "idle"
    /\ found = None
    /\ range = None
    /\ split_ret = None
    /\ iter = None
    /\ yielded = <<>>
    /\ ended = FALSE
    /\ rewinds = 0

NextPage == Find \/ FindRange \/ Split \/ IterNext \/ IterRewind

SpecPage == InitPage /\ [][NextPage]_vars

----------------------------------------------------------------------------
(* The order the claims speak of, stated on the values: lexicographic on   *)
(* (score, effective_rate, write_amplify, active_size, file_id).           *)

Below(x, y) == x.num * y.den < y.num * x.den

KindRank(file_id) == IF file_id.kind = "PageFile" THEN 0 ELSE 1

LexLess(a, b) ==
    \/ Below(a.score, b.score)
    \/ /\ a.score = b.score
       /\ \/ Below(a.effective_rate, b.effective_rate)
          \/ /\ a.effective_rate = b.effective_rate
             /\ \/ Below(a.write_amplify, b.write_amplify)
                \/ /\ a.write_amplify = b.write_amplify
                   /\ \/ a.active_size < b.active_size
                      \/ /\ a.active_size = b.active_size
                         /\ \/ KindRank(a.file_id) < KindRank(b.file_id)
                            \/ /\ KindRank(a.file_id) = KindRank(b.file_id)
                               /\ a.file_id.id < b.file_id.id

LexLeq(a, b) == a = b \/ LexLess(a, b)

IsMaxOf(s, i) == \A j \in 1 .. Len(s) : LexLeq(s[j], s[i])

Returned(fs) == Some([file_id |-> fs.file_id, active_size |-> fs.active_size])

Count(s, x) == Cardinality({k \in 1 .. Len(s) : s[k] = x})

\* t holds the elements of s but the one at position i.
IsRemovalOf(t, s, i) ==
    /\ Len(t) = Len(s) - 1
    /\ \A k \in 1 .. Len(s) :
          Count(t, s[k]) = Count(s, s[k]) - (IF s[k] = s[i] THEN 1 ELSE 0)

\* C1: the first apply on an instance holding two or more collected
\* summaries returns Some((file_id, active_size)) of a segment whose
\* FileScore is >= every collected FileScore in the lexicographic order, and
\* the active_size a collect records is the summary's effective_size.
C1_PickTotality ==
    [][ /\ (applies = 0 /\ applies' = 1 /\ Len(scores) >= 2) =>
              \E i \in 1 .. Len(scores) :
                  IsMaxOf(scores, i) /\ ret' = Returned(scores[i])
        /\ (collects' = collects + 1) =>
              /\ scores'[Len(scores')].active_size = arg'.val.summary.effective_size
              /\ scores'[Len(scores')].file_id = arg'.val.file_id ]_vars

\* C1 witness: the first apply returned a victim out of three collected
\* segments.
C1_Witness ==
    /\ last = "apply" /\ applies = 1 /\ collects = 3
    /\ ret.some /\ Len(scores) = 2
    /\ scores[1].score # scores[2].score

\* C2: apply returns None whenever the instance holds fewer than two
\* segments, and then it removes none of them.
C2_NoneBelowTwo ==
    [][ (applies' = applies + 1 /\ Len(scores) < 2) =>
            (ret' = None /\ scores' = scores) ]_vars

\* C2 witness: apply has just returned None on an instance holding one
\* segment, after an earlier apply returned a victim.
C2_Witness ==
    /\ last = "apply" /\ applies = 2 /\ ret = None
    /\ Len(scores) = 1 /\ collects = 2

\* C3: two instances with the same now fed the same summaries (distinct file
\* ids) in any two orders return the same value from apply.
C3_OrderIndependent ==
    (applies = 1 /\ other.some) => ret = other.val.ret

\* C3 witness: both instances returned the same victim, the second was fed
\* in another order than the first, and the victim tied on score with a
\* segment left behind.
C3_Witness ==
    /\ applies = 1 /\ other.some /\ ret.some /\ collects = 3
    /\ other.val.fed[3].file_id # arg.val.file_id
    /\ \E i, j \in 1 .. 3 :
          /\ i # j
          /\ other.val.fed[i].score = other.val.fed[j].score
          /\ other.val.fed[i].file_id = ret.val.file_id

\* C10: in any sequence of collects and applies, every apply that returns a
\* victim returns the maximum of the candidates held at that moment and
\* removes exactly that candidate.
C10_ApplyAlwaysMax ==
    [][ (applies' = applies + 1 /\ ret'.some) =>
            \E i \in 1 .. Len(scores) :
                /\ IsMaxOf(scores, i)
                /\ ret' = Returned(scores[i])
                /\ IsRemovalOf(scores', scores, i) ]_vars

\* C4 as stated: a == 0 implies score == 0, u == n implies score == f64::MIN
\* and e == f implies score == f64::MIN, all three for every summary.
C4_Degeneracy ==
    dr_score.some =>
        LET m == dr_summary.val
        IN  /\ (m.num_active_pages = 0) => (dr_score.val = Zero)
            /\ (m.up2 = dr_now) => (dr_score.val = F64_MIN)
            /\ (m.effective_size = m.file_size) => (dr_score.val = F64_MIN)

\* C4 amended: a == 0 implies score == 0; for a != 0, u == n implies
\* score == f64::MIN and e == f implies score == f64::MIN.
C4_DegeneracyAmended ==
    dr_score.some =>
        LET m == dr_summary.val
        IN  /\ (m.num_active_pages = 0) => (dr_score.val = Zero)
            /\ (m.num_active_pages # 0 /\ m.up2 = dr_now) =>
                  (dr_score.val = F64_MIN)
            /\ (m.num_active_pages # 0 /\ m.effective_size = m.file_size) =>
                  (dr_score.val = F64_MIN)

\* C4 witness: a segment with active pages and free space, updated in the
\* round's epoch, was scored f64::MIN.
C4_Witness ==
    /\ dr_score.some
    /\ dr_summary.val.num_active_pages > 0
    /\ dr_summary.val.up2 = dr_now
    /\ dr_summary.val.effective_size < dr_summary.val.file_size
    /\ dr_score.val = F64_MIN

\* C5 as stated: for every summary and every now the score is never greater
\* than 0.0, the score of a segment without active pages.
C5_ScoreAtMostZero ==
    dr_score.some => ~Below(Zero, dr_score.val)

\* C5 amended: for every summary whose up2 is not later than now the score
\* is never greater than 0.0.
C5_ScoreAtMostZeroAmended ==
    (dr_score.some /\ dr_summary.val.up2 <= dr_now) =>
        ~Below(Zero, dr_score.val)

\* C5 witness: a segment with active pages and free space, last updated
\* before now, was scored strictly between f64::MIN and 0.0.
C5_Witness ==
    /\ dr_score.some
    /\ dr_summary.val.up2 < dr_now
    /\ dr_summary.val.num_active_pages > 0
    /\ Below(dr_score.val, Zero)
    /\ Below(F64_MIN, dr_score.val)

\* C6: every counter field of the result of StoreStats::sub is the wrapping
\* difference of the operands' fields, so adding the subtrahend back with
\* wrapping addition gives the minuend again.
C6_SubIsWrappingSub ==
    interval.some =>
        \A c \in CounterFields :
            LET a == interval.val.self[c[1]][c[2]]
                b == interval.val.o[c[1]][c[2]]
                d == interval.val.out[c[1]][c[2]]
            IN  /\ d = (a + U64Modulus - b) % U64Modulus
                /\ (d + b) % U64Modulus = a

KeyLeq(a, b) == BytesCmp(a, b) # "Greater"

KeyLess(a, b) == BytesCmp(a, b) = "Less"

IsKeyOf(k, pg) == \E i \in 1 .. Len(pg) : pg[i].key = k

\* C7: find(k) returns the entry with the greatest key <= k, and None when
\* every key of the page exceeds k (the empty page included).
C7_FindGreatestLeq ==
    found.some =>
        LET k  == found.val.target
            le == {i \in 1 .. Len(page) : KeyLeq(page[i].key, k)}
        IN  IF le = {} THEN found.val.item = None
            ELSE \E i \in le :
                    /\ \A j \in le : KeyLeq(page[j].key, page[i].key)
                    /\ found.val.item = Some(page[i])

\* C7 witness: find returned an entry whose key is below a target that is no
\* key of the page, with a greater key following it.
C7_Witness ==
    /\ found.some /\ found.val.item.some
    /\ KeyLess(found.val.item.val.key, found.val.target)
    /\ \E i \in 1 .. Len(page) : KeyLess(found.val.target, page[i].key)
    /\ \E i \in 1 .. Len(page) : KeyLess(page[i].key, found.val.item.val.key)

\* C8 as stated: find_range(k) returns (left, right) with either
\* left.key <= k and (right is None or right.key > k), or left None and
\* right.key > k; and left.key == k whenever k is a key of the page.
C8_RangeDuality ==
    range.some =>
        LET k == range.val.target
            l == range.val.pair.left
            r == range.val.pair.right
        IN  /\ \/ /\ l.some /\ KeyLeq(l.val.key, k)
                  /\ (~r.some \/ KeyLess(k, r.val.key))
               \/ /\ ~l.some
                  /\ r.some /\ KeyLess(k, r.val.key)
            /\ IsKeyOf(k, page) => (l.some /\ l.val.key = k)

\* C8 amended: as stated, or the page is empty and both sides are None.
C8_RangeDualityAmended ==
    range.some =>
        LET k == range.val.target
            l == range.val.pair.left
            r == range.val.pair.right
        IN  /\ \/ /\ l.some /\ KeyLeq(l.val.key, k)
                  /\ (~r.some \/ KeyLess(k, r.val.key))
               \/ /\ ~l.some
                  /\ r.some /\ KeyLess(k, r.val.key)
               \/ /\ Len(page) = 0
                  /\ ~l.some /\ ~r.some
            /\ IsKeyOf(k, page) => (l.some /\ l.val.key = k)

\* C8 witness: find_range returned two entries enclosing a target that is
\* no key of the page.
C8_Witness ==
    /\ range.some
    /\ range.val.pair.left.some /\ range.val.pair.right.some
    /\ KeyLess(range.val.pair.left.val.key, range.val.target)
    /\ KeyLess(range.val.target, range.val.pair.right.val.key)

\* C9: split returns None exactly when the page has at most one entry;
\* otherwise the separator is the key at r = n / 2 with 1 <= r <= n - 1,
\* the iterator yields exactly the entries r .. n - 1 in order, and yields
\* them again after rewind.
C9_SplitIntegrity ==
    (pageop = "split") =>
        LET n    == Len(page)
            r    == n \div 2
            tail == SubSeq(page, r + 1, n)
        IN  /\ split_ret.some <=> n >= 2
            /\ split_ret.some =>
                  /\ 1 <= r /\ r <= n - 1
                  /\ split_ret.val = page[r + 1].key
                  /\ Len(yielded) <= Len(tail)
                  /\ yielded = SubSeq(tail, 1, Len(yielded))
                  /\ ended => yielded = tail

\* C9 witness: after a rewind the iterator of a four-entry page has yielded
\* its two last entries and ended.
C9_Witness ==
    /\ pageop = "split" /\ split_ret.some
    /\ Len(page) = 4 /\ rewinds = 1 /\ ended
    /\ yielded = <<page[3], page[4]>>

====
